---- MODULE Spec2Model ----
(***************************************************************************)
(* auh (Arch User Helper): the install batch of src/src/main.cpp.          *)
(*                                                                         *)
(* main() collects the package names, resolves the source (is_aur_up       *)
(* unless --github was given) and calls install_packages_parallel, which   *)
(* forks one worker per valid name, at most max_concurrent at a time, and  *)
(* reaps them with wait().                                                 *)
(*                                                                         *)
(* Strings are sequences of char values (a char is signed: a byte above    *)
(* 127 is a negative char).                                                *)
(***************************************************************************)
EXTENDS Integers, Sequences, FiniteSets, TLC

\* ------------------------------------------------------------------ bounds
MaxPkgs == 5          \* longest package list on the command line
MaxNameLen == 2       \* longest name enumerated for the validator
MaxJobPkgs == 2       \* longest package list when the jobs run step by step
MaxCmdPkgs == 2       \* longest package list of remove and update

\* ------------------------------------------------------- program constants
max_concurrent == 4   \* const size_t max_concurrent = 4
HTTP_UP_MIN == 200    \* http_code >= 200
HTTP_UP_LIM == 400    \* http_code < 400
INT_MAX == 2147483647  \* the largest int std::stoi returns

\* ------------------------------------------------------------------- chars
\* Representatives of every class of char around the boundaries of the
\* accepted ranges: '0' '9' 'A' 'Z' 'a' 'z', the four punctuation marks,
\* their neighbours in ASCII, shell metacharacters, and a byte above 127.
Chars == { 43, 45, 46, 95, 48, 57, 65, 90, 97, 122,
           32, 47, 58, 59, 64, 91, 96, 123, 36, 0 - 23 }

\* isalnum() in the "C" locale (the program never calls setlocale): the
\* ASCII letters and digits.  For a negative char the C library's table
\* lookup yields 0.
isalnum(c) ==
  \/ (c >= 48 /\ c <= 57)
  \/ (c >= 65 /\ c <= 90)
  \/ (c >= 97 /\ c <= 122)

\* isspace() in the "C" locale: space, \t \n \v \f \r.
isspace(c) == c = 32 \/ (c >= 9 /\ c <= 13)

isdigit(c) == c >= 48 /\ c <= 57

\* Variant of RejectedChar that forgets to let '+' through.
RejectedChar_NoPlus(c) == ~isalnum(c) /\ c # 45 /\ c # 95 /\ c # 46

\* The body of the for loop of is_valid_package_name: TRUE when the char
\* makes the function return false.
RejectedChar(c) == ~isalnum(c) /\ c # 45 /\ c # 95 /\ c # 46 /\ c # 43

is_valid_package_name(name) ==
  IF Len(name) = 0 THEN FALSE
  ELSE \A i \in 1..Len(name) : ~RejectedChar(name[i])

\* --------------------------------------------------------------- is_aur_up
\* std::stoi: skip leading white space, take an optional sign, then the
\* longest run of digits.  No digit: std::invalid_argument; a value that
\* does not fit an int: std::out_of_range.  Both are caught by catch (...).
RECURSIVE SkipSpace(_, _)
SkipSpace(s, i) ==
  IF i <= Len(s) /\ isspace(s[i]) THEN SkipSpace(s, i + 1) ELSE i

\* The digits from position i on, accumulated as a negative number (as
\* strtol does) so that INT_MIN is reached without overflow; `limit` is the
\* smallest value allowed.  1 stands for "out of range".
RECURSIVE Digits(_, _, _, _)
Digits(s, i, acc, limit) ==
  IF i <= Len(s) /\ isdigit(s[i])
  THEN LET d == s[i] - 48
       IN  IF acc < (limit + d + 9) \div 10 THEN 1
           ELSE Digits(s, i + 1, acc * 10 - d, limit)
  ELSE acc

stoi(s) ==
  LET i == SkipSpace(s, 1)
      neg == i <= Len(s) /\ s[i] = 45
      j == IF i <= Len(s) /\ (s[i] = 45 \/ s[i] = 43) THEN i + 1 ELSE i
      has == j <= Len(s) /\ isdigit(s[j])
      v == Digits(s, j, 0, IF neg THEN (0 - INT_MAX) - 1 ELSE 0 - INT_MAX)
  IN  IF ~has \/ v = 1 THEN [throws |-> TRUE, value |-> 0]
      ELSE [throws |-> FALSE, value |-> IF neg THEN v ELSE 0 - v]

\* Variant of is_aur_up whose upper limit is inclusive: 400 counts as up.
is_aur_up_Upto400(http_code_str) ==
  LET r == stoi(http_code_str)
  IN  IF r.throws THEN TRUE
      ELSE IF r.value >= HTTP_UP_MIN /\ r.value <= HTTP_UP_LIM THEN TRUE
      ELSE FALSE

\* is_aur_up on the captured output of curl -w "%{http_code}".  The catch
\* block executes `return 1;` in a function returning bool: true.
is_aur_up(http_code_str) ==
  LET r == stoi(http_code_str)
  IN  IF r.throws THEN TRUE
      ELSE IF r.value >= HTTP_UP_MIN /\ r.value < HTTP_UP_LIM THEN TRUE
      ELSE FALSE

\* What curl may print: nothing, a status code, or text that is no number.
HttpOutputs ==
  { <<>>, <<48, 48, 48>>, <<49, 57, 57>>, <<50, 48, 48>>, <<51, 48, 49>>,
    <<51, 57, 57>>, <<52, 48, 48>>, <<52, 48, 52>>, <<53, 48, 51>>,
    <<49, 48, 48>>, <<101, 114, 114>> }

\* ------------------------------------------------------------ wait status
\* The status word of wait(): exit(code) gives (code & 0xff) << 8, death by
\* signal sig gives sig in the low 7 bits.
ExitStatus(code) == (code % 256) * 256
SignalStatus(sig) == sig
WIFEXITED(status) == status % 128 = 0
WEXITSTATUS(status) == (status \div 256) % 256
KillSignals == {9}    \* a worker killed from outside dies by SIGKILL

\* Return values of the job a worker runs: install_pkg returns 0 or 1,
\* build_from_github returns 0, 1 or 4.
JobReturns(aur) == IF aur THEN {0, 1} ELSE {0, 1, 4}

\* The status words wait() can deliver for a worker: the child called
\* exit (result) (lines 449-455), or a signal killed it before that.
WaitStatuses(aur) ==
  { ExitStatus(r) : r \in JobReturns(aur) }
    \cup { SignalStatus(sig) : sig \in KillSignals }

\* ------------------------------------------------------------------ state
\* Names on the command line of the batch: "a", and "a;" which carries a
\* shell metacharacter.
PkgNames == { <<97>>, <<97, 59>> }

\* The kernel hands out pids in increasing order and a batch is far shorter
\* than the pid space: the k-th fork of the batch gets pid k.
Pids == 1..MaxPkgs

RECURSIVE SeqsUpTo(_, _)
SeqsUpTo(S, n) ==
  IF n = 0 THEN { <<>> }
  ELSE LET shorter == SeqsUpTo(S, n - 1)
       IN  shorter \cup { Append(q, x) : q \in shorter, x \in S }

VARIABLES
  packages,      \* vector<string> packages: argv[optind..]
  use_github,    \* main: -g / --github was given
  sigchld_ign,   \* the inherited disposition of SIGCHLD is SIG_IGN
  pc,            \* where the parent process is
  use_aur,       \* argument of install_packages_parallel
  children,      \* vector<pid_t> children
  pkg_idx,       \* size_t pkg_idx
  failed_count,  \* int failed_count
  exit_code,     \* what main returned (-1: still running)
  proc,          \* the worker processes, by pid
  last_pid,      \* the pid the kernel handed out last
  probes,        \* history: number of calls of is_aur_up
  validated,     \* history: list positions is_valid_package_name was run on
  forks,         \* history: list position -> number of workers forked for it
  outcome,       \* history: list position -> what became of the request
  tally,         \* history: reaped workers by the result their status shows
  http_code_str, \* is_aur_up: what curl printed, kept until the batch starts
  installed,     \* the packages pacman -Q knows
  dirs,          \* the directories that exist under the working directory
  job,           \* where each worker is in its job, by pid
  cmd            \* main: argv[1], its options, and the calls made so far

vars == << packages, use_github, sigchld_ign, pc, use_aur, children, pkg_idx,
           failed_count, exit_code, proc, last_pid, probes, validated, forks,
           outcome, tally, http_code_str, installed, dirs, job, cmd >>

\* What the scheduler's steps leave alone.
jobvars == << http_code_str, installed, dirs, job, cmd >>

NoProc == [st |-> "free", idx |-> 0]

\* main after it read argv[1] and the options: i counts the packages the
\* loop has handled; usage (main returned 1 from a usage branch) and calls
\* (one record per call of remove_pkg, update_pkg, clean_cache or
\* sync_explicit) are history.
NoCmd(name, opts) ==
  [name |-> name, opts |-> opts, i |-> 0, usage |-> FALSE, calls |-> <<>>]

\* A pid whose worker has not begun its job.  pipeline, pkg and dir are the
\* job's locals; out is install_pkg's `out`, crc what system() returned for
\* the clone, mkrc what it returned for makepkg (build_from_github's
\* `mkrc`), result what the job returns and status the worker's status
\* word; did (the commands run so far), inst (the package was installed
\* when the job began), cok and bok (the clone, the build really succeeded)
\* are history.
NoJob ==
  [step |-> "none", pipeline |-> "None", pkg |-> <<>>, dir |-> <<>>,
   out |-> <<>>, crc |-> 0, mkrc |-> 0, result |-> 0, status |-> 0,
   did |-> {}, inst |-> FALSE, cok |-> FALSE, bok |-> FALSE]

N == Len(packages)

\* packages[pkg_idx] of the code (0-based) is packages[pkg_idx + 1] here.
CurPkg == packages[pkg_idx + 1]

\* The state in which main reaches line 678, on one of the given lists.
InitFrom(lists) ==
  /\ packages \in lists
  /\ use_github \in BOOLEAN
  /\ sigchld_ign \in BOOLEAN
  /\ pc = "main"
  /\ use_aur = FALSE
  /\ children = <<>>
  /\ pkg_idx = 0
  /\ failed_count = 0
  /\ exit_code = 0 - 1
  /\ proc = [p \in Pids |-> NoProc]
  /\ last_pid = 0
  /\ probes = 0
  /\ validated = {}
  /\ forks = [i \in 1..Len(packages) |-> 0]
  /\ outcome = [i \in 1..Len(packages) |-> "Pending"]
  /\ tally = [Success |-> 0, Failure |-> 0, Killed |-> 0]
  /\ http_code_str = <<>>
  /\ dirs = {}
  /\ job = [p \in Pids |-> NoJob]
  /\ cmd = NoCmd("install", {})

\* main requires at least one package (lines 665-669).
Init == InitFrom(SeqsUpTo(PkgNames, MaxPkgs) \ { <<>> }) /\ installed = {}

\* ------------------------------------------------------------------ main
\* is_aur_up, lines 367-372, reached from line 683 when -g was not given:
\* curl is run and what it printed is captured.
MainProbe ==
  /\ pc = "main"
  /\ ~use_github
  /\ \E out \in HttpOutputs : http_code_str' = out
  /\ probes' = probes + 1
  /\ pc' = "probed"
  /\ UNCHANGED << packages, use_github, sigchld_ign, use_aur, children,
                  pkg_idx, failed_count, exit_code, proc, last_pid, validated,
                  forks, outcome, tally, installed, dirs, job, cmd >>

\* main, install branch, lines 678-684: use_aur = !use_github, and only
\* when that is true it is replaced by what is_aur_up returns.
MainResolve ==
  /\ \/ pc = "main" /\ use_github
     \/ pc = "probed"
  /\ use_aur' = IF ~use_github THEN is_aur_up(http_code_str) ELSE FALSE
  /\ pc' = "resolved"
  /\ UNCHANGED jobvars
  /\ UNCHANGED << packages, use_github, sigchld_ign, children, pkg_idx,
                  failed_count, exit_code, proc, last_pid, probes, validated,
                  forks, outcome, tally >>

\* main, line 687: install_packages_parallel (packages, use_aur) is called.
MainCall ==
  /\ pc = "resolved"
  /\ http_code_str' = <<>>
  /\ pc' = "admit"
  /\ UNCHANGED << packages, use_github, sigchld_ign, use_aur, children,
                  pkg_idx, failed_count, exit_code, proc, last_pid, probes,
                  validated, forks, outcome, tally, installed, dirs, job,
                  cmd >>

\* ---------------------------------------------- install_packages_parallel
\* Variant of CanAdmit with <= for <: one worker too many is admitted.
CanAdmit_OffByOne == pkg_idx < Len(packages) /\ Len(children) <= max_concurrent

\* Variant of CanAdmit with a cap of 2 workers.
CanAdmit_CapTwo == pkg_idx < Len(packages) /\ Len(children) < 2

\* The condition of the inner while loop (line 431).
CanAdmit == pkg_idx < N /\ Len(children) < max_concurrent

\* Variant of LoopAgain with && for ||: the loop ends while workers live.
LoopAgain_And(idx, ch) == idx < Len(packages) /\ Len(ch) > 0

\* The condition of the outer while loop (line 428), on the values given.
LoopAgain(idx, ch) == idx < N \/ Len(ch) > 0

\* Variant of RejectInvalid that forgets failed_count++.
RejectInvalid_NoCount ==
  /\ pc = "admit"
  /\ pkg_idx < Len(packages) /\ Len(children) < max_concurrent
  /\ ~is_valid_package_name(packages[pkg_idx + 1])
  /\ validated' = validated \cup {pkg_idx + 1}
  /\ pkg_idx' = pkg_idx + 1
  /\ outcome' = [outcome EXCEPT ![pkg_idx + 1] = "InvalidName"]
  /\ UNCHANGED jobvars
  /\ UNCHANGED << packages, use_github, sigchld_ign, pc, use_aur, children,
                  failed_count, exit_code, proc, last_pid, probes, forks,
                  tally >>

\* Variant of RejectInvalid that gives the batch up (return for continue).
RejectInvalid_Abort ==
  /\ pc = "admit"
  /\ pkg_idx < Len(packages) /\ Len(children) < max_concurrent
  /\ ~is_valid_package_name(packages[pkg_idx + 1])
  /\ validated' = validated \cup {pkg_idx + 1}
  /\ failed_count' = failed_count + 1
  /\ pkg_idx' = pkg_idx + 1
  /\ outcome' = [outcome EXCEPT ![pkg_idx + 1] = "InvalidName"]
  /\ pc' = "summary"
  /\ UNCHANGED jobvars
  /\ UNCHANGED << packages, use_github, sigchld_ign, use_aur, children,
                  exit_code, proc, last_pid, probes, forks, tally >>

\* Variant of RejectInvalid that counts the rejected name twice.
RejectInvalid_CountsTwice ==
  /\ pc = "admit"
  /\ CanAdmit
  /\ ~is_valid_package_name(CurPkg)
  /\ validated' = validated \cup {pkg_idx + 1}
  /\ failed_count' = failed_count + 2
  /\ pkg_idx' = pkg_idx + 1
  /\ outcome' = [outcome EXCEPT ![pkg_idx + 1] = "InvalidName"]
  /\ UNCHANGED jobvars
  /\ UNCHANGED << packages, use_github, sigchld_ign, pc, use_aur, children,
                  exit_code, proc, last_pid, probes, forks, tally >>

\* Lines 436-442: the name fails validation.
RejectInvalid ==
  /\ pc = "admit"
  /\ CanAdmit
  /\ ~is_valid_package_name(CurPkg)
  /\ validated' = validated \cup {pkg_idx + 1}
  /\ failed_count' = failed_count + 1
  /\ pkg_idx' = pkg_idx + 1
  /\ outcome' = [outcome EXCEPT ![pkg_idx + 1] = "InvalidName"]
  /\ UNCHANGED jobvars
  /\ UNCHANGED << packages, use_github, sigchld_ign, pc, use_aur, children,
                  exit_code, proc, last_pid, probes, forks, tally >>

\* Variant of ForkWorker without the validation of lines 436-442 before it.
ForkWorker_Unchecked ==
  /\ pc = "admit"
  /\ pkg_idx < Len(packages) /\ Len(children) < max_concurrent
  /\ LET pid == last_pid + 1
     IN  /\ last_pid' = pid
         /\ proc' = [proc EXCEPT ![pid] =
                       [st |-> "running", idx |-> pkg_idx + 1]]
         /\ children' = Append(children, pid)
  /\ pkg_idx' = pkg_idx + 1
  /\ forks' = [forks EXCEPT ![pkg_idx + 1] = @ + 1]
  /\ outcome' = [outcome EXCEPT ![pkg_idx + 1] = "Running"]
  /\ UNCHANGED jobvars
  /\ UNCHANGED << packages, use_github, sigchld_ign, pc, use_aur,
                  failed_count, exit_code, probes, tally, validated >>

\* Variant of ForkWorker that probes the AUR again for every package.
ForkWorker_Reprobe ==
  /\ pc = "admit"
  /\ CanAdmit
  /\ is_valid_package_name(CurPkg)
  /\ LET pid == last_pid + 1
     IN  /\ last_pid' = pid
         /\ proc' = [proc EXCEPT ![pid] =
                       [st |-> "running", idx |-> pkg_idx + 1]]
         /\ children' = Append(children, pid)
  /\ validated' = validated \cup {pkg_idx + 1}
  /\ pkg_idx' = pkg_idx + 1
  /\ forks' = [forks EXCEPT ![pkg_idx + 1] = @ + 1]
  /\ outcome' = [outcome EXCEPT ![pkg_idx + 1] = "Running"]
  /\ probes' = probes + 1
  /\ \E out \in HttpOutputs : use_aur' = is_aur_up(out)
  /\ UNCHANGED jobvars
  /\ UNCHANGED << packages, use_github, sigchld_ign, pc,
                  failed_count, exit_code, tally >>

\* Variant of ForkWorker that takes the requests from the back of the list.
ForkWorker_Reversed ==
  /\ pc = "admit"
  /\ CanAdmit
  /\ is_valid_package_name(packages[N - pkg_idx])
  /\ outcome[N - pkg_idx] = "Pending"
  /\ LET pid == last_pid + 1
     IN  /\ last_pid' = pid
         /\ proc' = [proc EXCEPT ![pid] =
                       [st |-> "running", idx |-> N - pkg_idx]]
         /\ children' = Append(children, pid)
  /\ validated' = validated \cup {N - pkg_idx}
  /\ pkg_idx' = pkg_idx + 1
  /\ forks' = [forks EXCEPT ![N - pkg_idx] = @ + 1]
  /\ outcome' = [outcome EXCEPT ![N - pkg_idx] = "Running"]
  /\ UNCHANGED jobvars
  /\ UNCHANGED << packages, use_github, sigchld_ign, pc, use_aur,
                  failed_count, exit_code, probes, tally >>

\* Lines 444, 457-462: fork() returned the pid of a new child, which runs
\* the job of the current package (lines 446-456).
ForkWorker ==
  /\ pc = "admit"
  /\ CanAdmit
  /\ is_valid_package_name(CurPkg)
  /\ LET pid == last_pid + 1
     IN  /\ last_pid' = pid
         /\ proc' = [proc EXCEPT ![pid] =
                       [st |-> "running", idx |-> pkg_idx + 1]]
         /\ children' = Append(children, pid)
  /\ validated' = validated \cup {pkg_idx + 1}
  /\ pkg_idx' = pkg_idx + 1
  /\ forks' = [forks EXCEPT ![pkg_idx + 1] = @ + 1]
  /\ outcome' = [outcome EXCEPT ![pkg_idx + 1] = "Running"]
  /\ UNCHANGED jobvars
  /\ UNCHANGED << packages, use_github, sigchld_ign, pc, use_aur,
                  failed_count, exit_code, probes, tally >>

\* Variant of ForkFail that forgets pkg_idx++: the request is tried again.
ForkFail_Retry ==
  /\ pc = "admit"
  /\ pkg_idx < Len(packages) /\ Len(children) < max_concurrent
  /\ is_valid_package_name(packages[pkg_idx + 1])
  /\ outcome[pkg_idx + 1] = "Pending"
  /\ validated' = validated \cup {pkg_idx + 1}
  /\ failed_count' = failed_count + 1
  /\ outcome' = [outcome EXCEPT ![pkg_idx + 1] = "DispatchFailure"]
  /\ UNCHANGED jobvars
  /\ UNCHANGED << packages, use_github, sigchld_ign, pc, use_aur, children,
                  pkg_idx, exit_code, proc, last_pid, probes, forks, tally >>

\* Variant of ForkFail that pushes the -1 fork() returned into children.
ForkFail_PushesPid ==
  /\ pc = "admit"
  /\ CanAdmit
  /\ is_valid_package_name(CurPkg)
  /\ validated' = validated \cup {pkg_idx + 1}
  /\ failed_count' = failed_count + 1
  /\ pkg_idx' = pkg_idx + 1
  /\ outcome' = [outcome EXCEPT ![pkg_idx + 1] = "DispatchFailure"]
  /\ children' = Append(children, 0 - 1)
  /\ UNCHANGED jobvars
  /\ UNCHANGED << packages, use_github, sigchld_ign, pc, use_aur,
                  exit_code, proc, last_pid, probes, forks, tally >>

\* Lines 444, 463-469: fork() returned -1.
ForkFail ==
  /\ pc = "admit"
  /\ CanAdmit
  /\ is_valid_package_name(CurPkg)
  /\ validated' = validated \cup {pkg_idx + 1}
  /\ failed_count' = failed_count + 1
  /\ pkg_idx' = pkg_idx + 1
  /\ outcome' = [outcome EXCEPT ![pkg_idx + 1] = "DispatchFailure"]
  /\ UNCHANGED jobvars
  /\ UNCHANGED << packages, use_github, sigchld_ign, pc, use_aur, children,
                  exit_code, proc, last_pid, probes, forks, tally >>

\* Variant of BlockInWait that waits for a worker after every fork, whether
\* or not a slot is free (lockstep).
BlockInWait_Lockstep ==
  /\ pc = "admit"
  /\ Len(children) > 0
  /\ pc' = "wait"
  /\ UNCHANGED jobvars
  /\ UNCHANGED << packages, use_github, sigchld_ign, use_aur, children,
                  pkg_idx, failed_count, exit_code, proc, last_pid, probes,
                  validated, forks, outcome, tally >>

\* Line 473 with a non-empty children: the parent calls wait().
BlockInWait ==
  /\ pc = "admit"
  /\ ~CanAdmit
  /\ Len(children) > 0
  /\ pc' = "wait"
  /\ UNCHANGED jobvars
  /\ UNCHANGED << packages, use_github, sigchld_ign, use_aur, children,
                  pkg_idx, failed_count, exit_code, proc, last_pid, probes,
                  validated, forks, outcome, tally >>

\* Line 473 with an empty children, then line 428: the loop ends.
SkipWait ==
  /\ pc = "admit"
  /\ ~CanAdmit
  /\ Len(children) = 0
  /\ pc' = IF LoopAgain(pkg_idx, children) THEN "admit" ELSE "summary"
  /\ UNCHANGED jobvars
  /\ UNCHANGED << packages, use_github, sigchld_ign, use_aur, children,
                  pkg_idx, failed_count, exit_code, proc, last_pid, probes,
                  validated, forks, outcome, tally >>

\* std::remove + erase (lines 480-482): every element equal to v is dropped.
RemoveAll(s, v) == SelectSeq(s, LAMBDA x : x # v)

\* Line 485: the condition under which a reaped worker counts as failed.
CountsAsFailed(status) == WIFEXITED(status) /\ WEXITSTATUS(status) # 0

\* What a worker's status word says about its job.
Classify(status) ==
  IF ~WIFEXITED(status) THEN "Killed"
  ELSE IF WEXITSTATUS(status) = 0 THEN "Success" ELSE "Failure"

\* Variant of Reap that forgets to erase the pid from children.
Reap_KeepsPid(pid, status) ==
  /\ pc = "wait"
  /\ proc[pid].st = "zombie"
  /\ failed_count' = IF CountsAsFailed(status)
                     THEN failed_count + 1 ELSE failed_count
  /\ outcome' = [outcome EXCEPT ![proc[pid].idx] = "Reaped"]
  /\ tally' = [tally EXCEPT ![Classify(status)] = @ + 1]
  /\ proc' = [proc EXCEPT ![pid] = NoProc]
  /\ pc' = "admit"
  /\ UNCHANGED jobvars
  /\ UNCHANGED << packages, use_github, sigchld_ign, use_aur, pkg_idx,
                  exit_code, last_pid, probes, validated, forks, children >>

\* Variant of Reap that erases the oldest pid, whichever child wait() named.
Reap_ErasesFront(pid, status) ==
  /\ pc = "wait"
  /\ proc[pid].st = "zombie"
  /\ children' = Tail(children)
  /\ failed_count' = IF CountsAsFailed(status)
                     THEN failed_count + 1 ELSE failed_count
  /\ outcome' = [outcome EXCEPT ![proc[pid].idx] = "Reaped"]
  /\ tally' = [tally EXCEPT ![Classify(status)] = @ + 1]
  /\ proc' = [proc EXCEPT ![pid] = NoProc]
  /\ pc' = IF LoopAgain(pkg_idx, children') THEN "admit" ELSE "summary"
  /\ UNCHANGED jobvars
  /\ UNCHANGED << packages, use_github, sigchld_ign, use_aur, pkg_idx,
                  exit_code, last_pid, probes, validated, forks >>

\* Lines 476-489: wait() returned the pid of a terminated child and stored
\* its status word.
Reap(pid, status) ==
  /\ pc = "wait"
  /\ proc[pid].st = "zombie"
  /\ children' = RemoveAll(children, pid)
  /\ failed_count' = IF CountsAsFailed(status)
                     THEN failed_count + 1 ELSE failed_count
  /\ outcome' = [outcome EXCEPT ![proc[pid].idx] = "Reaped"]
  /\ tally' = [tally EXCEPT ![Classify(status)] = @ + 1]
  /\ proc' = [proc EXCEPT ![pid] = NoProc]
  /\ pc' = IF LoopAgain(pkg_idx, children') THEN "admit" ELSE "summary"
  /\ UNCHANGED jobvars
  /\ UNCHANGED << packages, use_github, sigchld_ign, use_aur, pkg_idx,
                  exit_code, last_pid, probes, validated, forks >>

\* Lines 476-477 with finished <= 0: the process has no child left to wait
\* for (ECHILD), which happens when SIGCHLD is ignored and every child has
\* terminated.  Nothing is changed and the outer loop runs again.
WaitFail ==
  /\ pc = "wait"
  /\ \A p \in Pids : proc[p].st = "free"
  /\ pc' = IF LoopAgain(pkg_idx, children) THEN "admit" ELSE "summary"
  /\ UNCHANGED jobvars
  /\ UNCHANGED << packages, use_github, sigchld_ign, use_aur, children,
                  pkg_idx, failed_count, exit_code, proc, last_pid, probes,
                  validated, forks, outcome, tally >>

\* Lines 493-500: the value install_packages_parallel returns.
Summary(failed) == IF failed > 0 THEN 1 ELSE 0

\* Lines 493-500, and main's `return install_packages_parallel (...)`.
Return ==
  /\ pc = "summary"
  /\ exit_code' = Summary(failed_count)
  /\ pc' = "done"
  /\ UNCHANGED jobvars
  /\ UNCHANGED << packages, use_github, sigchld_ign, use_aur, children,
                  pkg_idx, failed_count, proc, last_pid, probes, validated,
                  forks, outcome, tally >>

\* ---------------------------------------------------------------- workers
\* A worker terminates (exit (result) at line 455, or a signal).  With
\* SIGCHLD ignored the kernel discards it at once; otherwise it stays a
\* zombie until wait() collects it.
WorkerTerminate(pid) ==
  /\ proc[pid].st = "running"
  /\ proc' = [proc EXCEPT ![pid] =
                IF sigchld_ign THEN NoProc
                ELSE [st |-> "zombie", idx |-> proc[pid].idx]]
  /\ UNCHANGED jobvars
  /\ UNCHANGED << packages, use_github, sigchld_ign, pc, use_aur, children,
                  pkg_idx, failed_count, exit_code, last_pid, probes,
                  validated, forks, outcome, tally >>

Next ==
  \/ MainProbe
  \/ MainResolve
  \/ MainCall
  \/ RejectInvalid
  \/ ForkWorker
  \/ ForkFail
  \/ BlockInWait
  \/ SkipWait
  \/ \E pid \in Pids : \E status \in WaitStatuses(use_aur) : Reap(pid, status)
  \/ WaitFail
  \/ Return
  \/ \E pid \in Pids : WorkerTerminate(pid)

Spec == Init /\ [][Next]_vars

\* The parent is one sequential process that the kernel keeps scheduling,
\* wait() returns once a terminated child exists, and every worker
\* terminates in the end (its job returns, or it is killed).
ParentStep ==
  \/ MainProbe
  \/ MainResolve
  \/ MainCall
  \/ RejectInvalid
  \/ ForkWorker
  \/ ForkFail
  \/ BlockInWait
  \/ SkipWait
  \/ \E pid \in Pids : \E status \in WaitStatuses(use_aur) : Reap(pid, status)
  \/ WaitFail
  \/ Return

FairSpec ==
  /\ Spec
  /\ WF_vars(ParentStep)
  /\ \A pid \in Pids : WF_vars(WorkerTerminate(pid))

\* The same program started on a batch of one name, the name drawn from
\* every string of at most MaxNameLen chars.
InitNames ==
  /\ InitFrom({ << name >> : name \in SeqsUpTo(Chars, MaxNameLen) })
  /\ installed = {}

SpecNames == InitNames /\ [][Next]_vars

\* ------------------------------------------------------------------ jobs
\* What the steps of a worker's job leave alone.
schedvars == << packages, use_github, sigchld_ign, pc, use_aur, children,
                pkg_idx, failed_count, exit_code, last_pid, probes, validated,
                forks, outcome, tally, http_code_str, cmd >>

\* What system() returns to the caller.  The command runs in either case;
\* with SIGCHLD ignored the shell is discarded when it ends, waitpid() fails
\* with ECHILD and system() returns -1; otherwise it returns the shell's
\* status word.
SystemRc(ok) ==
  IF sigchld_ign THEN 0 - 1 ELSE IF ok THEN ExitStatus(0) ELSE ExitStatus(1)

\* Lines 134-136: trailing whitespace is popped off the captured output.
RECURSIVE RTrim(_)
RTrim(s) ==
  IF Len(s) > 0 /\ isspace(s[Len(s)])
  THEN RTrim(SubSeq(s, 1, Len(s) - 1)) ELSE s

\* "[]", the text line 139 compares with.
EmptyArray == <<91, 93>>

\* What `curl -s .../rpc/?v=5&type=info&arg=<pkg> | jq -c .results` prints:
\* "[]\n" for an unknown package, "[{}]\n" standing for an array with one
\* result, "null\n" for an answer without results, and nothing when curl
\* failed or jq could not parse the answer (also what run_capture returns
\* when popen fails).
CatalogOutputs ==
  { <<91, 93, 10>>, <<91, 123, 125, 93, 10>>, <<110, 117, 108, 108, 10>>,
    <<>> }

\* The directory `git clone <url>` creates for
\* https://aur.archlinux.org/<pkg>.git (line 146): <pkg>.
PrimaryDir(pkg) == pkg

\* Line 321: tmpdir = "./auh_mirror_" + package.
MirrorDir(pkg) ==
  <<46, 47, 97, 117, 104, 95, 109, 105, 114, 114, 111, 114, 95>> \o pkg

\* The commands a job runs; branch <<>> is the default branch of the
\* repository, shallow is --depth=1 --single-branch.
Cmd(op, dir, branch, shallow) ==
  [op |-> op, dir |-> dir, branch |-> branch, shallow |-> shallow]

\* Line 146: git clone <url>.
CloneAur(pkg) == Cmd("clone", PrimaryDir(pkg), <<>>, FALSE)

\* Variant of CloneMirror that clones the whole repository, default branch.
CloneMirror_Full(pkg) == Cmd("clone", MirrorDir(pkg), <<>>, FALSE)

\* Lines 328-330: git clone --single-branch --branch <pkg> --depth=1
\* <mirror>.git <tmpdir>.
CloneMirror(pkg) == Cmd("clone", MirrorDir(pkg), pkg, TRUE)

\* Variant of PipelineFor with the two branches exchanged.
PipelineFor_Swapped(aur) == IF aur THEN "Mirror" ELSE "Primary"

\* Lines 451-454: if (use_aur) install_pkg, else build_from_github.
PipelineFor(aur) == IF aur THEN "Primary" ELSE "Mirror"

\* Lines 446-454: the child begins; it has its own copy of pkg and use_aur.
JobStart(pid) ==
  /\ proc[pid].st = "running"
  /\ job[pid].step = "none"
  /\ LET pkg == packages[proc[pid].idx]
         pl == PipelineFor(use_aur)
     IN  job' = [job EXCEPT ![pid] =
                   [NoJob EXCEPT
                      !.step = IF pl = "Primary" THEN "is_installed"
                               ELSE "rm_before",
                      !.pipeline = pl,
                      !.pkg = pkg,
                      !.dir = IF pl = "Primary" THEN PrimaryDir(pkg)
                              ELSE MirrorDir(pkg),
                      !.inst = pkg \in installed]]
  /\ UNCHANGED << proc, installed, dirs >>
  /\ UNCHANGED schedvars

\* install_pkg, lines 123-128, and is_installed (99-104): pacman -Q.
PrimaryIsInstalled(pid) ==
  /\ proc[pid].st = "running"
  /\ job[pid].step = "is_installed"
  /\ LET rc == SystemRc(job[pid].pkg \in installed)
     IN  job' = [job EXCEPT
                   ![pid].step = IF rc = 0 THEN "exit" ELSE "query",
                   ![pid].result = 0,
                   ![pid].did = @ \cup {Cmd("pacman -Q", <<>>, <<>>, FALSE)}]
  /\ UNCHANGED << proc, installed, dirs >>
  /\ UNCHANGED schedvars

\* install_pkg, lines 130-143: the catalog query and the test for "[]".
PrimaryQuery(pid) ==
  /\ proc[pid].st = "running"
  /\ job[pid].step = "query"
  /\ \E raw \in CatalogOutputs :
       LET out == RTrim(raw)
       IN  job' = [job EXCEPT
                     ![pid].step = IF out = EmptyArray THEN "exit"
                                   ELSE "clone",
                     ![pid].result = IF out = EmptyArray THEN 1 ELSE 0,
                     ![pid].out = out,
                     ![pid].did = @ \cup {Cmd("query", <<>>, <<>>, FALSE)}]
  /\ UNCHANGED << proc, installed, dirs >>
  /\ UNCHANGED schedvars

\* Variant of PrimaryClone that goes on to the build whatever git returned.
PrimaryClone_IgnoresRc(pid) ==
  /\ proc[pid].st = "running"
  /\ job[pid].pipeline = "Primary"
  /\ job[pid].step = "clone"
  /\ \E net \in BOOLEAN :
       LET ok == net /\ job[pid].dir \notin dirs
           rc == SystemRc(ok)
       IN  /\ dirs' = IF ok THEN dirs \cup {job[pid].dir} ELSE dirs
           /\ job' = [job EXCEPT
                        ![pid].step = "build",
                        ![pid].crc = rc,
                        ![pid].cok = ok,
                        ![pid].did = @ \cup {CloneAur(job[pid].pkg)}]
  /\ UNCHANGED << proc, installed >>
  /\ UNCHANGED schedvars

\* install_pkg, lines 145-152: git clone into ./<pkg>.  git refuses an
\* existing directory and removes what it created when it fails.
PrimaryClone(pid) ==
  /\ proc[pid].st = "running"
  /\ job[pid].pipeline = "Primary"
  /\ job[pid].step = "clone"
  /\ \E net \in BOOLEAN :
       LET ok == net /\ job[pid].dir \notin dirs
           rc == SystemRc(ok)
       IN  /\ dirs' = IF ok THEN dirs \cup {job[pid].dir} ELSE dirs
           /\ job' = [job EXCEPT
                        ![pid].step = IF rc # 0 THEN "exit" ELSE "build",
                        ![pid].result = IF rc # 0 THEN 1 ELSE 0,
                        ![pid].crc = rc,
                        ![pid].cok = ok,
                        ![pid].did = @ \cup {CloneAur(job[pid].pkg)}]
  /\ UNCHANGED << proc, installed >>
  /\ UNCHANGED schedvars

\* install_pkg, lines 154-163: cd <pkg> && makepkg -si --noconfirm.
PrimaryBuild(pid) ==
  /\ proc[pid].st = "running"
  /\ job[pid].pipeline = "Primary"
  /\ job[pid].step = "build"
  /\ \E good \in BOOLEAN :
       LET ok == good /\ job[pid].dir \in dirs
           rc == SystemRc(ok)
       IN  /\ installed' = IF ok THEN installed \cup {job[pid].pkg}
                           ELSE installed
           /\ job' = [job EXCEPT
                        ![pid].step = "exit",
                        ![pid].result = IF rc # 0 THEN 1 ELSE 0,
                        ![pid].mkrc = rc,
                        ![pid].bok = ok,
                        ![pid].did = @ \cup
                          {Cmd("build", job[pid].dir, <<>>, FALSE)}]
  /\ UNCHANGED << proc, dirs >>
  /\ UNCHANGED schedvars

\* build_from_github, lines 323-325: rm -rf <tmpdir>.
MirrorClean(pid) ==
  /\ proc[pid].st = "running"
  /\ job[pid].step = "rm_before"
  /\ dirs' = dirs \ {job[pid].dir}
  /\ job' = [job EXCEPT
               ![pid].step = "clone",
               ![pid].did = @ \cup {Cmd("rm", job[pid].dir, <<>>, FALSE)}]
  /\ UNCHANGED << proc, installed >>
  /\ UNCHANGED schedvars

\* build_from_github, lines 327-336: the shallow clone of the branch.
MirrorClone(pid) ==
  /\ proc[pid].st = "running"
  /\ job[pid].pipeline = "Mirror"
  /\ job[pid].step = "clone"
  /\ \E net \in BOOLEAN :
       LET ok == net /\ job[pid].dir \notin dirs
           rc == SystemRc(ok)
       IN  /\ dirs' = IF ok THEN dirs \cup {job[pid].dir} ELSE dirs
           /\ job' = [job EXCEPT
                        ![pid].step = IF rc # 0 THEN "exit" ELSE "build",
                        ![pid].result = IF rc # 0 THEN 1 ELSE 0,
                        ![pid].crc = rc,
                        ![pid].cok = ok,
                        ![pid].did = @ \cup {CloneMirror(job[pid].pkg)}]
  /\ UNCHANGED << proc, installed >>
  /\ UNCHANGED schedvars

\* build_from_github, lines 338-341: cd <tmpdir> && makepkg, result in mkrc.
MirrorBuild(pid) ==
  /\ proc[pid].st = "running"
  /\ job[pid].pipeline = "Mirror"
  /\ job[pid].step = "build"
  /\ \E good \in BOOLEAN :
       LET ok == good /\ job[pid].dir \in dirs
       IN  /\ installed' = IF ok THEN installed \cup {job[pid].pkg}
                           ELSE installed
           /\ job' = [job EXCEPT
                        ![pid].step = "rm_after",
                        ![pid].mkrc = SystemRc(ok),
                        ![pid].bok = ok,
                        ![pid].did = @ \cup
                          {Cmd("build", job[pid].dir, <<>>, FALSE)}]
  /\ UNCHANGED << proc, dirs >>
  /\ UNCHANGED schedvars

\* Variant of MirrorCleanup that reports a failed build as 1, like a
\* failed clone.
MirrorCleanup_Returns1(pid) ==
  /\ proc[pid].st = "running"
  /\ job[pid].step = "rm_after"
  /\ dirs' = dirs \ {job[pid].dir}
  /\ job' = [job EXCEPT
               ![pid].step = "exit",
               ![pid].result = IF job[pid].mkrc # 0 THEN 1 ELSE 0,
               ![pid].did = @ \cup {Cmd("rm", job[pid].dir, <<>>, FALSE)}]
  /\ UNCHANGED << proc, installed >>
  /\ UNCHANGED schedvars

\* build_from_github, lines 343-354: rm -rf <tmpdir>, then 4 or 0.
MirrorCleanup(pid) ==
  /\ proc[pid].st = "running"
  /\ job[pid].step = "rm_after"
  /\ dirs' = dirs \ {job[pid].dir}
  /\ job' = [job EXCEPT
               ![pid].step = "exit",
               ![pid].result = IF job[pid].mkrc # 0 THEN 4 ELSE 0,
               ![pid].did = @ \cup {Cmd("rm", job[pid].dir, <<>>, FALSE)}]
  /\ UNCHANGED << proc, installed >>
  /\ UNCHANGED schedvars

\* Variant of JobExit without the exit: the child stays in the loop and
\* begins another job.
JobExit_FallsThrough(pid) ==
  /\ proc[pid].st = "running"
  /\ job[pid].step = "exit"
  /\ job' = [job EXCEPT ![pid].step = "none"]
  /\ UNCHANGED << proc, installed, dirs >>
  /\ UNCHANGED schedvars

\* Line 455: exit (result).  The process ends as in WorkerTerminate.
JobExit(pid) ==
  /\ proc[pid].st = "running"
  /\ job[pid].step = "exit"
  /\ job' = [job EXCEPT ![pid].step = "exited",
                        ![pid].status = ExitStatus(job[pid].result)]
  /\ proc' = [proc EXCEPT ![pid] =
                IF sigchld_ign THEN NoProc
                ELSE [st |-> "zombie", idx |-> proc[pid].idx]]
  /\ UNCHANGED << installed, dirs >>
  /\ UNCHANGED schedvars

\* A signal kills the worker wherever it is in lines 446-455: its locals
\* are gone with it, what it did to the disk and to pacman's database stays.
JobKilled(pid) ==
  /\ proc[pid].st = "running"
  /\ \E sig \in KillSignals :
       job' = [job EXCEPT ![pid] =
                 [NoJob EXCEPT !.step = "killed",
                               !.status = SignalStatus(sig)]]
  /\ proc' = [proc EXCEPT ![pid] =
                IF sigchld_ign THEN NoProc
                ELSE [st |-> "zombie", idx |-> proc[pid].idx]]
  /\ UNCHANGED << installed, dirs >>
  /\ UNCHANGED schedvars

\* One step of the worker pid.
JobStep(pid) ==
  \/ JobStart(pid)
  \/ PrimaryIsInstalled(pid)
  \/ PrimaryQuery(pid)
  \/ PrimaryClone(pid)
  \/ PrimaryBuild(pid)
  \/ MirrorClean(pid)
  \/ MirrorClone(pid)
  \/ MirrorBuild(pid)
  \/ MirrorCleanup(pid)
  \/ JobExit(pid)
  \/ JobKilled(pid)

\* The batch with every worker running its job step by step; wait()
\* delivers the status word the worker ended with.
NextJob ==
  \/ MainProbe
  \/ MainResolve
  \/ MainCall
  \/ RejectInvalid
  \/ ForkWorker
  \/ ForkFail
  \/ BlockInWait
  \/ SkipWait
  \/ \E pid \in Pids : Reap(pid, job[pid].status)
  \/ WaitFail
  \/ Return
  \/ \E pid \in Pids : JobStep(pid)

\* Lists of at most MaxJobPkgs names, each valid name installed or not.
InitJob ==
  /\ InitFrom(SeqsUpTo(PkgNames, MaxJobPkgs) \ { <<>> })
  /\ installed \in SUBSET { n \in PkgNames : is_valid_package_name(n) }

SpecJob == InitJob /\ [][NextJob]_vars

\* ------------------------------------------- remove, update, clean, sync
\* A shell command handed to system() or popen(): the program, its option
\* letters, and the package name pasted into the command line (<<>>: none).
Sh(prog, flags, name) == [prog |-> prog, flags |-> flags, name |-> name]

\* is_installed (lines 99-104): pacman -Q <package>.
IsInstalledCmd(package) == Sh("pacman", {"Q"}, package)

\* remove_pkg (lines 178-198).  isinst is what is_installed returned and
\* rok whether pacman removed the package.
remove_pkg(package, autoremove, isinst, rok) ==
  IF ~isinst
  THEN [ran |-> << IsInstalledCmd(package) >>, ret |-> 0, removed |-> FALSE]
  ELSE LET flags == IF autoremove THEN {"R", "s", "n"} ELSE {"R"}
           rc == SystemRc(rok)
       IN  [ran |-> << IsInstalledCmd(package),
                       Sh("pacman", flags, package) >>,
            ret |-> IF rc # 0 THEN 1 ELSE 0,
            removed |-> rok]

\* Line 238: tmpdir = "/tmp/auh_" + package.
UpdateDir(package) == <<47, 116, 109, 112, 47, 97, 117, 104, 95>> \o package

\* Variant of update_pkg that gives up when pacman -S fails instead of
\* rebuilding.
update_pkg_NoFallback(package, isinst, sok, cok, bok) ==
  IF package = <<>>
  THEN [ran |-> << Sh("pacman", {"S", "y", "u"}, <<>>) >>,
        ret |-> IF SystemRc(sok) # 0 THEN 1 ELSE 0,
        src |-> SystemRc(sok), crc |-> 0, mrc |-> 0,
        built |-> FALSE, dir_left |-> FALSE]
  ELSE
    LET pre == << IsInstalledCmd(package) >>
                 \o (IF isinst THEN << Sh("pacman", {"S"}, package) >>
                     ELSE <<>>)
        src == SystemRc(sok)
        crc == SystemRc(cok)
        mrc == SystemRc(bok)
        clone == Sh("rm && git clone", {}, package)
        build == Sh("makepkg", {"s", "i"}, package)
        rm == Sh("rm", {"r", "f"}, package)
    IN  IF isinst
        THEN [ran |-> pre, ret |-> IF src = 0 THEN 0 ELSE 1, src |-> src,
              crc |-> 0, mrc |-> 0, built |-> FALSE, dir_left |-> FALSE]
        ELSE IF crc # 0
        THEN [ran |-> pre \o << clone >>, ret |-> 1, src |-> src,
              crc |-> crc, mrc |-> 0, built |-> FALSE, dir_left |-> cok]
        ELSE IF mrc # 0
        THEN [ran |-> pre \o << clone, build >>, ret |-> 1, src |-> src,
              crc |-> crc, mrc |-> mrc, built |-> bok, dir_left |-> cok]
        ELSE [ran |-> pre \o << clone, build, rm >>, ret |-> 0, src |-> src,
              crc |-> crc, mrc |-> mrc, built |-> bok, dir_left |-> FALSE]

\* update_pkg (lines 216-270).  isinst is what is_installed returned; sok,
\* cok and bok say whether pacman -S (or -Syu), the clone and makepkg
\* succeeded.  src, crc and mrc are what system() returned for them.
update_pkg(package, isinst, sok, cok, bok) ==
  IF package = <<>>
  THEN [ran |-> << Sh("pacman", {"S", "y", "u"}, <<>>) >>,
        ret |-> IF SystemRc(sok) # 0 THEN 1 ELSE 0,
        src |-> SystemRc(sok), crc |-> 0, mrc |-> 0,
        built |-> FALSE, dir_left |-> FALSE]
  ELSE
    LET pre == << IsInstalledCmd(package) >>
                 \o (IF isinst THEN << Sh("pacman", {"S"}, package) >>
                     ELSE <<>>)
        src == SystemRc(sok)
        crc == SystemRc(cok)
        mrc == SystemRc(bok)
        clone == Sh("rm && git clone", {}, package)
        build == Sh("makepkg", {"s", "i"}, package)
        rm == Sh("rm", {"r", "f"}, package)
    IN  IF isinst /\ src = 0
        THEN [ran |-> pre, ret |-> 0, src |-> src, crc |-> 0, mrc |-> 0,
              built |-> FALSE, dir_left |-> FALSE]
        ELSE IF crc # 0
        THEN [ran |-> pre \o << clone >>, ret |-> 1, src |-> src,
              crc |-> crc, mrc |-> 0, built |-> FALSE, dir_left |-> cok]
        ELSE IF mrc # 0
        THEN [ran |-> pre \o << clone, build >>, ret |-> 1, src |-> src,
              crc |-> crc, mrc |-> mrc, built |-> bok, dir_left |-> cok]
        ELSE [ran |-> pre \o << clone, build, rm >>, ret |-> 0, src |-> src,
              crc |-> crc, mrc |-> mrc, built |-> bok, dir_left |-> FALSE]

\* clean_cache (lines 280-295).
clean_cache(ok) ==
  [ran |-> << Sh("pacman", {"S", "c", "c"}, <<>>) >>,
   ret |-> IF SystemRc(ok) = 0 THEN 0 ELSE 1]

\* The names of a set in some order, as pacman -Qeq lists them.
RECURSIVE Listing(_)
Listing(S) ==
  IF S = {} THEN <<>>
  ELSE LET x == CHOOSE y \in S : TRUE IN << x >> \o Listing(S \ {x})

\* sync_explicit (lines 519-573): one catalog query per valid name of the
\* list pacman printed; it returns 0 whatever happens.
RECURSIVE SyncQueries(_)
SyncQueries(names) ==
  IF names = <<>> THEN <<>>
  ELSE (IF is_valid_package_name(Head(names))
        THEN << Sh("curl", {"s"}, Head(names)) >> ELSE <<>>)
       \o SyncQueries(Tail(names))

sync_explicit(explicit_pkgs) ==
  [ran |-> << Sh("pacman", {"Q", "e", "q"}, <<>>) >>
             \o SyncQueries(explicit_pkgs),
   ret |-> 0]

\* What pacman -Q <package> finds, as the shell runs the command line: for
\* a name without metacharacters whether the package is installed, for any
\* other name whatever the altered command line does.
QueryResults(package) ==
  IF is_valid_package_name(package) THEN { package \in installed }
  ELSE BOOLEAN

\* What argv[1] can be: one of the commands, a word that is none of them
\* ("other"), or nothing at all ("none", argc < 2).  install is the batch
\* of the scheduler.
CmdNames == {"remove", "update", "clean", "sync", "other", "none"}

\* The options on a remove command line: -s / --autoremove and -p / --purge.
RemoveOpts == {"s", "p"}

\* The branches of main that print the usage and return 1 (lines 626-630,
\* 708-720, 753-758): no argv[1], an unknown command, remove with an option
\* other than -s or without packages.
UsageError ==
  \/ cmd.name \in {"none", "other"}
  \/ cmd.name = "remove" /\ (cmd.opts \ {"s"} # {} \/ N = 0)

CmdUsage ==
  /\ pc = "cmd_main"
  /\ UsageError
  /\ cmd' = [cmd EXCEPT !.usage = TRUE]
  /\ exit_code' = 1
  /\ pc' = "done"
  /\ UNCHANGED << packages, use_github, sigchld_ign, use_aur, children,
                  pkg_idx, failed_count, proc, last_pid, probes, validated,
                  forks, outcome, tally, http_code_str, installed, dirs, job >>

\* Lines 635, 689, 725, 739, 744, 749: the branch of the command is entered.
CmdDispatch ==
  /\ pc = "cmd_main"
  /\ ~UsageError
  /\ pc' = "cmd_loop"
  /\ UNCHANGED jobvars
  /\ UNCHANGED << packages, use_github, sigchld_ign, use_aur, children,
                  pkg_idx, failed_count, exit_code, proc, last_pid, probes,
                  validated, forks, outcome, tally >>

\* The record of one call, for cmd.calls.
Call(fn, package, inst, isinst, r) ==
  [fn |-> fn, pkg |-> package, inst |-> inst, isinst |-> isinst, r |-> r]

\* Lines 722-724: remove_pkg (argv[i], autoremove), return value dropped.
RemoveOne ==
  /\ pc = "cmd_loop"
  /\ cmd.name = "remove"
  /\ cmd.i < N
  /\ LET package == packages[cmd.i + 1]
     IN  \E q \in QueryResults(package), rok \in BOOLEAN :
           LET isinst == SystemRc(q) = 0
               r == remove_pkg(package, "s" \in cmd.opts, isinst, rok)
           IN  /\ isinst \/ ~rok
               /\ rok => (package \in installed
                           \/ ~is_valid_package_name(package))
               /\ installed' = IF r.removed THEN installed \ {package}
                               ELSE installed
               /\ cmd' = [cmd EXCEPT
                            !.i = @ + 1,
                            !.calls = Append(@,
                              Call("remove_pkg", package,
                                   package \in installed, isinst, r))]
  /\ UNCHANGED << packages, use_github, sigchld_ign, pc, use_aur, children,
                  pkg_idx, failed_count, exit_code, proc, last_pid, probes,
                  validated, forks, outcome, tally, http_code_str, dirs, job >>

\* Lines 727-731: update_pkg (""), return value dropped.
UpdateAll ==
  /\ pc = "cmd_loop"
  /\ cmd.name = "update"
  /\ N = 0
  /\ cmd.i = 0
  /\ \E sok \in BOOLEAN :
       cmd' = [cmd EXCEPT
                 !.i = 1,
                 !.calls = Append(@,
                   Call("update_pkg", <<>>, FALSE, FALSE,
                        update_pkg(<<>>, FALSE, sok, FALSE, FALSE)))]
  /\ UNCHANGED << packages, use_github, sigchld_ign, pc, use_aur, children,
                  pkg_idx, failed_count, exit_code, proc, last_pid, probes,
                  validated, forks, outcome, tally, http_code_str, installed,
                  dirs, job >>

\* Lines 732-737: update_pkg (argv[i]), return value dropped.
UpdateOne ==
  /\ pc = "cmd_loop"
  /\ cmd.name = "update"
  /\ cmd.i < N
  /\ LET package == packages[cmd.i + 1]
     IN  \E q \in QueryResults(package), sok, cok, bok \in BOOLEAN :
           LET isinst == SystemRc(q) = 0
               r == update_pkg(package, isinst, sok, cok, bok)
               n == Len(r.ran)
           IN  /\ isinst \/ ~sok
               /\ (\E k \in 1..n : r.ran[k].prog = "rm && git clone") \/ ~cok
               /\ (\E k \in 1..n : r.ran[k].prog = "makepkg") \/ ~bok
               /\ installed' = IF r.built THEN installed \cup {package}
                               ELSE installed
               /\ dirs' = IF \A k \in 1..n : r.ran[k].prog # "rm && git clone"
                          THEN dirs
                          ELSE IF r.dir_left
                          THEN dirs \cup {UpdateDir(package)}
                          ELSE dirs \ {UpdateDir(package)}
               /\ cmd' = [cmd EXCEPT
                            !.i = @ + 1,
                            !.calls = Append(@,
                              Call("update_pkg", package,
                                   package \in installed, isinst, r))]
  /\ UNCHANGED << packages, use_github, sigchld_ign, pc, use_aur, children,
                  pkg_idx, failed_count, exit_code, proc, last_pid, probes,
                  validated, forks, outcome, tally, http_code_str, job >>

\* Lines 739-743: clean_cache (), return value dropped.
CleanCache ==
  /\ pc = "cmd_loop"
  /\ cmd.name = "clean"
  /\ cmd.i = 0
  /\ \E ok \in BOOLEAN :
       cmd' = [cmd EXCEPT
                 !.i = 1,
                 !.calls = Append(@,
                   Call("clean_cache", <<>>, FALSE, FALSE, clean_cache(ok)))]
  /\ UNCHANGED << packages, use_github, sigchld_ign, pc, use_aur, children,
                  pkg_idx, failed_count, exit_code, proc, last_pid, probes,
                  validated, forks, outcome, tally, http_code_str, installed,
                  dirs, job >>

\* Lines 744-748: sync_explicit (), return value dropped.
SyncExplicit ==
  /\ pc = "cmd_loop"
  /\ cmd.name = "sync"
  /\ cmd.i = 0
  /\ cmd' = [cmd EXCEPT
               !.i = 1,
               !.calls = Append(@,
                 Call("sync_explicit", <<>>, FALSE, FALSE,
                      sync_explicit(Listing(installed))))]
  /\ UNCHANGED << packages, use_github, sigchld_ign, pc, use_aur, children,
                  pkg_idx, failed_count, exit_code, proc, last_pid, probes,
                  validated, forks, outcome, tally, http_code_str, installed,
                  dirs, job >>

\* Line 761: the `return 0;` every branch that did not return falls to.
CmdReturn ==
  /\ pc = "cmd_loop"
  /\ IF cmd.name \in {"remove", "update"} /\ N > 0 THEN cmd.i = N
     ELSE cmd.i = 1
  /\ exit_code' = 0
  /\ pc' = "done"
  /\ UNCHANGED jobvars
  /\ UNCHANGED << packages, use_github, sigchld_ign, use_aur, children,
                  pkg_idx, failed_count, proc, last_pid, probes, validated,
                  forks, outcome, tally >>

NextCmd ==
  \/ CmdUsage
  \/ CmdDispatch
  \/ RemoveOne
  \/ UpdateAll
  \/ UpdateOne
  \/ CleanCache
  \/ SyncExplicit
  \/ CmdReturn

\* main with a command other than install: remove and update with up to
\* MaxCmdPkgs names, the others without arguments that matter.
InitCmd ==
  /\ cmd \in { NoCmd(name, opts) : name \in CmdNames,
                                   opts \in SUBSET RemoveOpts }
  /\ cmd.name # "remove" => cmd.opts = {}
  /\ packages \in SeqsUpTo(PkgNames, MaxCmdPkgs)
  /\ cmd.name \notin {"remove", "update"} => packages = <<>>
  /\ installed \in SUBSET { n \in PkgNames : is_valid_package_name(n) }
  /\ sigchld_ign \in BOOLEAN
  /\ use_github = FALSE
  /\ pc = "cmd_main"
  /\ use_aur = FALSE
  /\ children = <<>>
  /\ pkg_idx = 0
  /\ failed_count = 0
  /\ exit_code = 0 - 1
  /\ proc = [p \in Pids |-> NoProc]
  /\ last_pid = 0
  /\ probes = 0
  /\ validated = {}
  /\ forks = [i \in 1..Len(packages) |-> 0]
  /\ outcome = [i \in 1..Len(packages) |-> "Pending"]
  /\ tally = [Success |-> 0, Failure |-> 0, Killed |-> 0]
  /\ http_code_str = <<>>
  /\ dirs = {}
  /\ job = [p \in Pids |-> NoJob]

SpecCmd == InitCmd /\ [][NextCmd]_vars

\* ------------------------------------------------------------ properties
RECURSIVE SumTo(_, _)
SumTo(f, n) == IF n = 0 THEN 0 ELSE f[n] + SumTo(f, n - 1)

\* Workers forked so far, workers reaped so far, and worker processes that
\* exist (running, or terminated and not yet waited for).
Dispatched == SumTo(forks, N)
Reaped == tally.Success + tally.Failure + tally.Killed
Existing == { p \in Pids : proc[p].st # "free" }

Positions(kind) == { i \in 1..N : outcome[i] = kind }

\* The names the documentation allows, written out char by char:
\* 0-9, A-Z, a-z, '-', '_', '.', '+'.
AllowedChars ==
  (48..57) \cup (65..90) \cup (97..122) \cup {45, 95, 46, 43}

WellFormed(name) ==
  Len(name) > 0 /\ { name[i] : i \in 1..Len(name) } \subseteq AllowedChars

\* C1: at every instant the number of live workers (forked and not yet
\* reaped) is at most max_concurrent: the children vector never holds more
\* than 4 pids, no more than 4 worker processes exist, and the number of
\* workers dispatched never exceeds 4 plus the number already reaped.
C1_CapNeverExceeded ==
  /\ Len(children) <= max_concurrent
  /\ Cardinality(Existing) <= max_concurrent
  /\ Dispatched - Reaped <= max_concurrent
  /\ Dispatched <= max_concurrent + Reaped

\* C1 witness: a fifth worker has been dispatched, after one reap, and four
\* workers are live again while the parent waits.
C1_Witness ==
  /\ Dispatched = max_concurrent + 1
  /\ Reaped = 1
  /\ Len(children) = max_concurrent
  /\ pc = "wait"

\* C2: is_valid_package_name(name) is true exactly for the non-empty names
\* made only of ASCII letters, ASCII digits, '-', '_', '.', '+'; and the
\* scheduler rejects a name exactly when the function returns false.
C2_ValidatorCharacterisation ==
  \A i \in 1..N :
    /\ is_valid_package_name(packages[i]) <=> WellFormed(packages[i])
    /\ i \in validated =>
         (outcome[i] = "InvalidName" <=> ~WellFormed(packages[i]))

\* C2 witness: the name "+." passed validation and a worker runs for it,
\* in a run where is_valid_package_name was called.
C2_Witness ==
  /\ packages = << <<43, 46>> >>
  /\ 1 \in validated
  /\ outcome[1] = "Running"

\* C3: a request whose name fails validation never gets a worker (and so
\* no external command ever carries its name: only a worker embeds a name
\* in a command); the step that consumes it records exactly one failure and
\* leaves the live-worker set as it was.
C3_InvalidNeverDispatched ==
  /\ [](\A i \in 1..N :
          ~is_valid_package_name(packages[i]) =>
            /\ forks[i] = 0
            /\ \A p \in Existing : proc[p].idx # i
            /\ outcome[i] \in {"Pending", "InvalidName"})
  /\ [][(pkg_idx' # pkg_idx /\ ~is_valid_package_name(CurPkg)) =>
          /\ failed_count' = failed_count + 1
          /\ pkg_idx' = pkg_idx + 1
          /\ outcome'[pkg_idx + 1] = "InvalidName"
          /\ UNCHANGED << children, proc, last_pid, forks, tally >>]_vars

\* C3 witness: an invalid name has been rejected while workers of earlier
\* requests are live.
C3_Witness ==
  \E i \in 1..N :
    /\ outcome[i] = "InvalidName"
    /\ Len(children) > 0
    /\ failed_count = 1
    /\ pkg_idx = i

\* C4 as stated: no probe and no worker is started before the names of the
\* batch have been validated, and a batch of rejected names only starts no
\* subprocess at all.
C4_NothingBeforeValidation ==
  /\ (probes > 0 \/ Dispatched > 0) => validated = 1..N
  /\ (\A i \in 1..N : ~is_valid_package_name(packages[i])) =>
       (probes = 0 /\ Dispatched = 0)

\* C4 amended: each name is validated before a worker is forked for it, so
\* no command carries a name that was not validated, and a batch of
\* rejected names only forks no worker; the one subprocess that runs before
\* the validation is the availability probe, which main runs exactly when
\* --github is absent and which carries no package name.
C4_ValidationPrecedesDispatch ==
  /\ \A i \in 1..N :
       forks[i] > 0 => (i \in validated /\ is_valid_package_name(packages[i]))
  /\ \A p \in Existing : proc[p].idx \in validated
  /\ (\A i \in 1..N : ~is_valid_package_name(packages[i])) =>
       (Dispatched = 0 /\ Existing = {})
  /\ probes = (IF use_github \/ pc = "main" THEN 0 ELSE 1)

\* C4 witness: the probe ran, one name was rejected and a worker was forked
\* for another.
C4_Witness ==
  /\ probes = 1
  /\ \E i, j \in 1..N : forks[i] = 1 /\ outcome[j] = "InvalidName"

\* Requests whose terminal result is no success: rejected names, failed
\* forks, workers that exited nonzero and workers killed by a signal.
NonSuccess ==
  Cardinality(Positions("InvalidName"))
    + Cardinality(Positions("DispatchFailure"))
    + tally.Failure + tally.Killed

\* C5: when install_packages_parallel has returned, every request has one
\* terminal result, failed_count is the number of requests whose result is
\* no success, and the other N - failed_count requests succeeded.
C5_EveryRequestAccounted ==
  pc = "done" =>
    /\ \A i \in 1..N :
         outcome[i] \in {"InvalidName", "DispatchFailure", "Reaped"}
    /\ Reaped = Cardinality(Positions("Reaped"))
    /\ failed_count = NonSuccess
    /\ tally.Success = N - failed_count

\* C6: the exit code is 1 exactly when some request ended in a result that
\* is no success, and 0 exactly when every request succeeded.
C6_ExitCodeIsFailureFlag ==
  pc = "done" =>
    /\ exit_code = 1 <=> NonSuccess > 0
    /\ exit_code = 0 <=> NonSuccess = 0

\* C7: every list position is consumed exactly once: at most one worker is
\* ever forked for it, it is never dispatched again once its worker was
\* reaped or its fork failed, and pkg_idx passes no position without a
\* result being recorded for it.
C7_ConsumedExactlyOnce ==
  /\ [](\A i \in 1..N :
          /\ forks[i] <= 1
          /\ outcome[i] # "Pending" <=> i <= pkg_idx
          /\ outcome[i] \in {"Pending", "InvalidName", "DispatchFailure"}
               => forks[i] = 0
          /\ outcome[i] \in {"Running", "Reaped"} => forks[i] = 1
          /\ Cardinality({ p \in Existing : proc[p].idx = i }) <= 1
          /\ outcome[i] # "Running" => \A p \in Existing : proc[p].idx # i)
  /\ [][/\ pkg_idx' \in {pkg_idx, pkg_idx + 1}
        /\ \A i \in 1..N :
             /\ forks'[i] >= forks[i]
             /\ forks'[i] > forks[i] =>
                  (outcome[i] = "Pending" /\ i = pkg_idx + 1)
             /\ outcome[i] \in {"InvalidName", "DispatchFailure", "Reaped"}
                  => outcome'[i] = outcome[i]]_vars

\* C7 witness: the batch is over, a fork failed for one request and a later
\* request was dispatched and reaped.
C7_Witness ==
  /\ pc = "done"
  /\ \E i, j \in 1..N :
       j < i /\ outcome[j] = "DispatchFailure" /\ outcome[i] = "Reaped"

\* C8: when every forked worker terminates and wait() reports it (SIGCHLD
\* is not ignored), install_packages_parallel returns in the end and every
\* request has reached a terminal result by then: no pending request is
\* left behind.
C8_EventuallyReturns ==
  <>(\/ sigchld_ign
     \/ /\ pc = "done"
        /\ \A i \in 1..N :
             outcome[i] \in {"InvalidName", "DispatchFailure", "Reaped"})

\* C8 witness: a batch that needed a refill (more workers than the cap)
\* has returned, all its workers reaped.
C8_Witness ==
  /\ ~sigchld_ign
  /\ pc = "done"
  /\ Dispatched > max_concurrent
  /\ Reaped = Dispatched

\* C9: install_packages_parallel leaves its loop (and produces the failure
\* summary) only when pkg_idx has reached the end of the list and children
\* is empty, never while a forked worker is unreaped; it calls wait() only
\* with a non-empty children; and once both conditions hold its next step
\* is to leave the loop.
C9_ReturnsOnlyWhenDrained ==
  /\ [](pc \in {"summary", "done"} =>
          /\ pkg_idx = N
          /\ Len(children) = 0
          /\ Existing = {}
          /\ Reaped = Dispatched)
  /\ [](pc = "wait" => Len(children) > 0)
  /\ [][(pc # "done" /\ pkg_idx = N /\ Len(children) = 0) =>
          pc' \in {"summary", "done"}]_vars

\* C9 witness: the loop has just ended after several reaps, with failures
\* to report.
C9_Witness ==
  /\ pc = "summary"
  /\ Reaped >= 2
  /\ failed_count > 0

\* The pids in the children vector.
ChildSet == { children[k] : k \in 1..Len(children) }

\* C10: a failed request (rejected name, failed fork, worker that exited
\* nonzero or was killed) never aborts the batch.  The step that records it
\* touches nothing but that request: the loop goes on, no sibling worker
\* and no other request's result changes, and the next valid request can
\* be forked whatever failed_count is; when the batch has returned a fork
\* was attempted for every valid request.
C10_FailureIsLocal ==
  /\ [](pc = "done" =>
          \A i \in 1..N :
            is_valid_package_name(packages[i]) =>
              outcome[i] \in {"Reaped", "DispatchFailure"})
  /\ []((/\ pc = "admit"
         /\ pkg_idx < N
         /\ Len(children) < max_concurrent
         /\ is_valid_package_name(CurPkg)) => ENABLED ForkWorker)
  /\ [][(failed_count' # failed_count \/ tally'.Killed # tally.Killed) =>
          /\ failed_count' \in {failed_count, failed_count + 1}
          /\ pc' = "summary" => (pkg_idx' = N /\ Len(children') = 0)
          /\ pc' \in {"admit", "summary"}
          /\ UNCHANGED << packages, use_aur, last_pid, forks, exit_code >>
          /\ \/ /\ pkg_idx' = pkg_idx + 1
                /\ UNCHANGED << children, proc, tally >>
                /\ \A i \in 1..N : i # pkg_idx + 1 => outcome'[i] = outcome[i]
             \/ /\ pkg_idx' = pkg_idx
                /\ \E p \in ChildSet :
                     /\ children' = RemoveAll(children, p)
                     /\ Len(children') = Len(children) - 1
                     /\ proc' = [proc EXCEPT ![p] = NoProc]
                     /\ \A i \in 1..N :
                          i # proc[p].idx => outcome'[i] = outcome[i]]_vars

\* C10 witness: the batch has returned; its first name was rejected, a
\* worker failed, and a later request was dispatched and succeeded.
C10_Witness ==
  /\ pc = "done"
  /\ outcome[1] = "InvalidName"
  /\ tally.Failure >= 1
  /\ tally.Success >= 1
  /\ \E j \in 1..N : outcome[j] = "DispatchFailure"

\* C11: greedy refill.  The parent is blocked in wait() only when the number
\* of live workers equals max_concurrent or no request is pending; a step
\* reaps at most one worker; and after a reap that leaves a request pending
\* the parent is back in the admission loop with one slot free and the
\* request still pending, where wait() is not called (BlockInWait needs
\* the house full or the list consumed).
C11_GreedyRefill ==
  /\ [](pc = "wait" => (Len(children) = max_concurrent \/ pkg_idx = N))
  /\ [][Reaped' # Reaped => Reaped' = Reaped + 1]_vars
  /\ [][(Reaped' # Reaped /\ pkg_idx < N)
          => /\ pc' = "admit"
             /\ Len(children') = max_concurrent - 1
             /\ pkg_idx' = pkg_idx
             /\ pkg_idx' < Len(packages')]_vars

\* C11 witness: one worker of a full house has just been reaped while a
\* request is still pending: three workers live, the parent admitting.
C11_Witness ==
  /\ Reaped = 1
  /\ pkg_idx < N
  /\ pc = "admit"
  /\ Len(children) = max_concurrent - 1
  /\ Dispatched = max_concurrent

\* A probe response that is a status code: decimal digits and nothing else;
\* and the number those digits write.
Numeric(s) == Len(s) > 0 /\ \A i \in 1..Len(s) : s[i] \in 48..57

RECURSIVE Decimal(_, _)
Decimal(s, n) == IF n = 0 THEN 0 ELSE 10 * Decimal(s, n - 1) + (s[n] - 48)

StatusCode(s) == Decimal(s, Len(s))

\* C12: when the probe's response cannot be parsed as a status code (curl
\* printed nothing, or text that is no number), is_aur_up reports down: a
\* batch started without --github is handed use_aur = FALSE, the mirror.
C12_UnparsableProbeMeansDown ==
  (pc = "resolved" /\ ~use_github /\ ~Numeric(http_code_str))
    => use_aur = FALSE

\* C13: for every response that is a status code s, is_aur_up returns true
\* exactly when 200 <= s <= 399; 0, 1xx, 4xx and 5xx give false.
C13_UpIffSuccessOrRedirect ==
  (pc = "resolved" /\ ~use_github /\ Numeric(http_code_str))
    => (use_aur <=> (200 <= StatusCode(http_code_str)
                       /\ StatusCode(http_code_str) <= 399))

\* C13 witness: the probe answered 399, the last status that counts as up,
\* and is_aur_up returned true.
C13_Witness ==
  /\ pc = "resolved"
  /\ ~use_github
  /\ Numeric(http_code_str)
  /\ StatusCode(http_code_str) = 399
  /\ use_aur

\* The workers that have begun their job and still have its record, and the
\* kinds of command a worker has run.
Started == { p \in Pids : job[p].step \notin {"none", "killed"} }
Ops(p) == { c.op : c \in job[p].did }

\* C14: the pipeline a worker runs is resolve(probe, flag): the Mirror
\* pipeline when --github was given, whatever the AUR does; without the
\* flag the Primary pipeline when the probe reported up (use_aur is what
\* is_aur_up returned, line 683) and the Mirror pipeline when it reported
\* down.
C14_PipelineIsResolved ==
  \A p \in Started :
    job[p].pipeline = (IF use_github THEN "Mirror"
                       ELSE IF use_aur THEN "Primary" ELSE "Mirror")

\* C14 witness: no --github, the probe answered with a status that counts
\* as up, and a worker runs the Primary pipeline.
C14_Witness ==
  /\ ~use_github
  /\ use_aur
  /\ probes = 1
  /\ \E p \in Started : job[p].pipeline = "Primary" /\ "query" \in Ops(p)

\* C15: when the probe reported down and --github was not given, every
\* worker runs build_from_github: none runs a command of install_pkg
\* (pacman -Q, the catalog query), and every clone is the shallow
\* single-branch clone of the branch named after the worker's package,
\* into ./auh_mirror_<package>.
C15_FallbackRunsMirrorOnly ==
  (~use_github /\ ~use_aur) =>
    \A p \in Started :
      /\ job[p].pipeline = "Mirror"
      /\ proc[p].st = "free" \/ job[p].pkg = packages[proc[p].idx]
      /\ Ops(p) \cap {"pacman -Q", "query"} = {}
      /\ \A c \in job[p].did :
           c.op = "clone" =>
             /\ c.shallow
             /\ c.branch = job[p].pkg
             /\ c.dir = MirrorDir(job[p].pkg)

\* C15 witness: the probe was run and reported down, and a worker has made
\* its mirror clone.
C15_Witness ==
  /\ ~use_github
  /\ ~use_aur
  /\ probes = 1
  /\ \E p \in Started : "clone" \in Ops(p) /\ job[p].step = "build"

\* C16 as stated: in every install batch is_aur_up is called exactly once
\* before the batch starts.
C16_ProbedExactlyOnce ==
  pc \notin {"main", "probed"} => probes = 1

\* C16, amended: is_aur_up is called once in a batch without --github and
\* not at all in a batch with --github; the call precedes the first fork;
\* from then on neither the number of calls nor use_aur changes, and every
\* worker runs the pipeline that this one value of use_aur selects.
C16_ProbedAtMostOnce ==
  /\ [](pc \notin {"main", "probed"}
          => probes = (IF use_github THEN 0 ELSE 1))
  /\ [](Dispatched > 0 => pc \notin {"main", "probed", "resolved"})
  /\ [][pc \notin {"main", "probed"}
          => (probes' = probes /\ use_aur' = use_aur)]_vars
  /\ [](\A p \in Started : job[p].pipeline = PipelineFor(use_aur))

\* C16 witness: a batch without --github has probed once and two workers
\* have begun their jobs, on the same pipeline.
C16_Witness ==
  /\ ~use_github
  /\ probes = 1
  /\ \E p, q \in Started :
       p # q /\ job[p].pipeline = job[q].pipeline

\* The jobs that have returned (about to call exit, or exited).
Returned == { p \in Started : job[p].step \in {"exit", "exited"} }

\* C17: a job whose package was installed when the job began runs neither
\* the catalog query nor a clone, whichever pipeline it is on, and returns
\* 0 (AlreadyInstalled, a success).  Stated for the default disposition of
\* SIGCHLD, under which system() reports what pacman -Q found.
C17_InstalledIsSkipped ==
  ~sigchld_ign =>
    \A p \in Started :
      job[p].inst =>
        /\ Ops(p) \cap {"query", "clone"} = {}
        /\ p \in Returned => job[p].result = 0

\* The catalog answered with a non-empty array: "[", something, "]".
NonEmptyArray(s) == Len(s) > 2 /\ s[1] = 91 /\ s[Len(s)] = 93

\* C18: in the Primary pipeline the clone is attempted only when the
\* catalog lookup returned a non-empty result array; after any other
\* answer the job returns 1 (NotFoundUpstream) without clone and build.
C18_CloneOnlyIfListed ==
  \A p \in Started :
    (job[p].pipeline = "Primary" /\ "query" \in Ops(p)) =>
      /\ "clone" \in Ops(p) => NonEmptyArray(job[p].out)
      /\ ~NonEmptyArray(job[p].out) =>
           /\ Ops(p) \cap {"clone", "build"} = {}
           /\ job[p].step = "exit" /\ job[p].result = 1

\* A worker has created, used or deleted its working directory.
TouchedDir(p) == Ops(p) \cap {"rm", "clone", "build"} # {}

\* C19: no two workers that are running at the same time have both
\* created, used or deleted the same working directory, whatever the
\* list, a list naming a package twice included.
C19_WorkDirsDisjoint ==
  \A p, q \in Started :
    (/\ p # q
     /\ proc[p].st = "running" /\ proc[q].st = "running"
     /\ TouchedDir(p) /\ TouchedDir(q)) => job[p].dir # job[q].dir

\* C20: when a job that cloned has returned (success, clone failure or
\* build failure), the directory it cloned into no longer exists.  Stated
\* for a job that is the only one of the batch on its directory, under the
\* default disposition of SIGCHLD.
C20_WorkDirIsEphemeral ==
  ~sigchld_ign =>
    \A p \in Returned :
      (/\ "clone" \in Ops(p)
       /\ \A q \in Started : q # p => job[q].dir # job[p].dir)
        => job[p].dir \notin dirs

\* C21: a Mirror job that has returned returns 1 exactly when system()
\* reported the clone as failed, and then it never ran the build; 4 exactly
\* when the clone was reported successful and the build failed; 0 exactly
\* when both succeeded.  Under the default disposition of SIGCHLD what
\* system() reports is what the command did.  The status word of a worker
\* that exited carries the result: WEXITSTATUS gives it back.
C21_MirrorResultClassifies ==
  \A p \in Returned :
    job[p].pipeline = "Mirror" =>
      /\ job[p].result = 1 <=> job[p].crc # 0
      /\ job[p].crc # 0 => "build" \notin Ops(p)
      /\ job[p].result = 4 <=> (job[p].crc = 0 /\ job[p].mkrc # 0)
      /\ job[p].result = 0 <=> (job[p].crc = 0 /\ job[p].mkrc = 0)
      /\ ~sigchld_ign =>
           /\ job[p].crc = 0 <=> job[p].cok
           /\ job[p].crc = 0 => (job[p].mkrc = 0 <=> job[p].bok)
      /\ job[p].step = "exited" =>
           /\ WIFEXITED(job[p].status)
           /\ WEXITSTATUS(job[p].status) = job[p].result

\* C21 witness: a Mirror worker whose clone succeeded and whose build
\* failed has exited with status 4.
C21_Witness ==
  \E p \in Returned :
    /\ job[p].pipeline = "Mirror"
    /\ job[p].cok /\ ~job[p].bok
    /\ job[p].step = "exited"
    /\ WEXITSTATUS(job[p].status) = 4

\* C24: admission is FIFO.  A worker is forked for position k only when no
\* worker was forked for a later position and every earlier position has
\* been taken off the list; the request index advances by exactly one in
\* every admission step and never otherwise, in particular not when a
\* worker completes; the children vector holds the live workers in the
\* order of their list positions whatever the order of completion.
C24_AdmissionIsFifo ==
  /\ [](\A i, j \in 1..N :
          (i < j /\ forks[j] > 0) => outcome[i] # "Pending")
  /\ [](\A a, b \in 1..Len(children) :
          (/\ a < b
           /\ proc[children[a]].st # "free"
           /\ proc[children[b]].st # "free")
            => proc[children[a]].idx < proc[children[b]].idx)
  /\ [][last_pid' # last_pid =>
          /\ pkg_idx' = pkg_idx + 1
          /\ forks'[pkg_idx + 1] = forks[pkg_idx + 1] + 1
          /\ proc'[last_pid'].idx = pkg_idx + 1
          /\ \A j \in 1..N : j > pkg_idx + 1 => forks[j] = 0
          /\ \A i \in 1..N : i < pkg_idx + 1 => outcome[i] # "Pending"]_vars
  /\ [][pkg_idx' # pkg_idx =>
          /\ pkg_idx' = pkg_idx + 1
          /\ pc = "admit"
          /\ Reaped' = Reaped]_vars

\* C24 witness: three workers were forked in list order and the worker of
\* the second request was reaped first, while the other two are live.
C24_Witness ==
  /\ N >= 3
  /\ outcome[1] = "Running"
  /\ outcome[2] = "Reaped"
  /\ outcome[3] = "Running"
  /\ Len(children) = 2

\* Every name of the list is valid.
AllValid == \A i \in 1..N : is_valid_package_name(packages[i])

\* C25: a list of at most max_concurrent requests, all valid, with no fork
\* failing: whenever the parent is in wait() every request has been
\* dispatched, and at the first wait (nothing reaped yet) all the workers
\* are in children together; if all of them exit with status 0 the batch
\* returns 0.
C25_SmallBatchRunsTogether ==
  (N <= max_concurrent /\ AllValid /\ Positions("DispatchFailure") = {}) =>
    /\ pc = "wait" =>
         /\ pkg_idx = N
         /\ Dispatched = N
         /\ Reaped = 0 => Len(children) = N
         /\ (Reaped = 0 /\ ~sigchld_ign) => Cardinality(Existing) = N
    /\ (pc = "done" /\ tally.Success = N) =>
         (failed_count = 0 /\ exit_code = 0)

\* C25 witness: four valid requests ran together, every worker exited with
\* status 0 and the batch returned 0.
C25_Witness ==
  /\ N = max_concurrent
  /\ AllValid
  /\ pc = "done"
  /\ tally.Success = N
  /\ exit_code = 0

\* C26: a worker killed by a signal is recorded as a non-success: every
\* reaped worker has left children, failed_count has been incremented for
\* every killed worker reaped so far, and a batch in which a worker was
\* killed returns 1.
C26_KilledCountsAsFailed ==
  /\ Len(children) = Dispatched - Reaped
  /\ failed_count >= tally.Killed
  /\ (pc = "done" /\ tally.Killed > 0) => exit_code = 1

\* The step records a dispatch failure for position i.
RecordsDispatchFailure(i) ==
  outcome[i] # "DispatchFailure" /\ outcome'[i] = "DispatchFailure"

\* C27: when fork() fails for a valid request the request is recorded as
\* failed once (failed_count + 1, DispatchFailure), nothing is added to
\* children and no process appears, the index moves to the next request
\* with the parent still in the admission loop, and the request is never
\* dispatched afterwards.
C27_ForkFailureIsRecordedOnce ==
  /\ [][\A i \in 1..N :
          RecordsDispatchFailure(i) =>
            /\ i = pkg_idx + 1
            /\ is_valid_package_name(packages[i])
            /\ outcome[i] = "Pending"
            /\ failed_count' = failed_count + 1
            /\ children' = children
            /\ proc' = proc
            /\ last_pid' = last_pid
            /\ pkg_idx' = pkg_idx + 1
            /\ pc' = "admit"
            /\ \A j \in 1..N : j # i => outcome'[j] = outcome[j]]_vars
  /\ [][\A i \in 1..N :
          outcome[i] = "DispatchFailure" =>
            (outcome'[i] = "DispatchFailure" /\ forks'[i] = 0)]_vars
  /\ [](\A i \in 1..N :
          outcome[i] = "DispatchFailure" => (forks[i] = 0 /\ i <= pkg_idx))

\* C27 witness: the fork failed for the first request and the second one
\* has its worker.
C27_Witness ==
  /\ N >= 2
  /\ outcome[1] = "DispatchFailure"
  /\ outcome[2] = "Running"
  /\ failed_count = 1
  /\ Len(children) = 1

\* C28: in both pipelines a job runs makepkg only after its own clone, and
\* only when system() reported that clone as successful (which under the
\* default disposition of SIGCHLD means the clone succeeded); a job whose
\* clone failed has returned a nonzero result without running makepkg.
C28_BuildOnlyAfterClone ==
  /\ [](\A p \in Started :
          /\ "build" \in Ops(p) => ("clone" \in Ops(p) /\ job[p].crc = 0)
          /\ ("build" \in Ops(p) /\ ~sigchld_ign) => job[p].cok
          /\ ("clone" \in Ops(p) /\ job[p].crc # 0) =>
               /\ p \in Returned
               /\ job[p].result # 0
               /\ "build" \notin Ops(p))
  /\ [][\A p \in Pids :
          ("build" \in Ops(p)' /\ "build" \notin Ops(p))
            => ("clone" \in Ops(p) /\ job[p].step = "build")]_vars

\* C28 witness: of two Primary jobs for one package, one has cloned and
\* built, the other's clone failed and it returned 1 without a build.
C28_Witness ==
  \E p, q \in Returned :
    /\ job[p].pipeline = "Primary"
    /\ job[p].cok /\ "build" \in Ops(p)
    /\ "clone" \in Ops(q) /\ ~job[q].cok
    /\ "build" \notin Ops(q) /\ job[q].result = 1

\* The calls main has made, and the programs a call ran.
Calls == { cmd.calls[k] : k \in 1..Len(cmd.calls) }
Progs(c) == { c.r.ran[k].prog : k \in 1..Len(c.r.ran) }

\* C22: whatever the subcommand, when main has returned its exit code is 1
\* if the command line was a usage error or some operation returned a
\* failure, and 0 otherwise.
C22_ExitCodeReportsFailure ==
  pc = "done" =>
    exit_code = (IF cmd.usage \/ \E c \in Calls : c.r.ret # 0 THEN 1 ELSE 0)

\* C23: every pacman removal that remove runs has the documented option
\* letters: R alone without flags, R and s with -s / --autoremove, and n
\* (configuration files too) only with -p / --purge.
C23_RemoveFlagsAsDocumented ==
  \A c \in Calls :
    c.fn = "remove_pkg" =>
      \A k \in 1..Len(c.r.ran) :
        "R" \in c.r.ran[k].flags =>
          c.r.ran[k].flags =
            {"R"} \cup (IF "s" \in cmd.opts THEN {"s"} ELSE {})
                  \cup (IF "p" \in cmd.opts THEN {"n"} ELSE {})

\* C29: every package name of the command line that remove or update has
\* pasted into a shell command is a name is_valid_package_name accepts.
C29_OnlyValidNamesInCommands ==
  \A c \in Calls :
    \A k \in 1..Len(c.r.ran) :
      c.r.ran[k].name # <<>> => is_valid_package_name(c.r.ran[k].name)

\* C30: update_pkg (p) for a non-empty p.  If is_installed said yes and
\* pacman -S returned 0, it returned 0 and ran neither clone nor makepkg.
\* In every other case (not installed, where pacman -S is not run at all,
\* or pacman -S returned nonzero) it ran the clone, ran makepkg after it
\* exactly when the clone returned 0, and returned 1 if the clone or
\* makepkg returned nonzero and 0 otherwise.  Under the default disposition
\* of SIGCHLD is_installed says yes exactly for an installed package.
C30_UpdateFallsBackToRebuild ==
  \A c \in Calls :
    (c.fn = "update_pkg" /\ c.pkg # <<>>) =>
      LET n == Len(c.r.ran)
          updated == c.isinst /\ c.r.src = 0
      IN  /\ c.r.ran[1] = IsInstalledCmd(c.pkg)
          /\ c.isinst <=> (n >= 2 /\ c.r.ran[2] = Sh("pacman", {"S"}, c.pkg))
          /\ (~sigchld_ign /\ is_valid_package_name(c.pkg))
               => (c.isinst <=> c.inst)
          /\ updated =>
               /\ c.r.ret = 0
               /\ Progs(c) \cap {"rm && git clone", "makepkg"} = {}
          /\ ~updated =>
               /\ "rm && git clone" \in Progs(c)
               /\ "makepkg" \in Progs(c) <=> c.r.crc = 0
               /\ "makepkg" \in Progs(c) =>
                    (c.r.ran[n].prog = "makepkg"
                       \/ c.r.ran[n - 1].prog = "makepkg")
               /\ c.r.ret = (IF c.r.crc # 0 \/ c.r.mrc # 0 THEN 1 ELSE 0)

\* C30 witness: the package was installed, pacman -S failed, and the
\* rebuild (clone, makepkg) succeeded: update_pkg returned 0.
C30_Witness ==
  \E c \in Calls :
    /\ c.fn = "update_pkg"
    /\ c.pkg # <<>>
    /\ c.isinst /\ c.r.src # 0
    /\ Progs(c) = {"pacman", "rm && git clone", "makepkg", "rm"}
    /\ c.r.ret = 0

\* The pid the worker of list position i was given: the kernel hands the
\* pids out in the order of the forks.
PidOf(i) == Cardinality({ j \in 1..i : forks[j] > 0 })

\* The pids of the workers that were forked and that no wait() has reported.
Unreaped == { PidOf(i) : i \in Positions("Running") }

\* C31: the children vector holds exactly the pids of the workers that were
\* forked and have not been reaped, each of them once; while SIGCHLD is not
\* ignored these are the worker processes that exist.  children changes
\* only by a successful fork, which appends the new pid, or by a wait()
\* that reports a terminated child, which erases that child's pid and no
\* other; and every successful fork appends.
C31_ChildrenAreUnreapedWorkers ==
  /\ [](/\ ChildSet = Unreaped
        /\ Cardinality(ChildSet) = Len(children)
        /\ Existing \subseteq ChildSet
        /\ (~sigchld_ign => ChildSet = Existing))
  /\ [][/\ last_pid' # last_pid => children' = Append(children, last_pid')
        /\ children' # children =>
             \/ /\ pc = "admit"
                /\ last_pid' = last_pid + 1
                /\ children' = Append(children, last_pid')
                /\ proc[last_pid'].st = "free"
                /\ proc'[last_pid'].st = "running"
             \/ \E p \in ChildSet :
                  /\ pc = "wait"
                  /\ proc[p].st = "zombie"
                  /\ proc'[p].st = "free"
                  /\ children' = RemoveAll(children, p)
                  /\ Len(children') = Len(children) - 1
                  /\ outcome'[proc[p].idx] = "Reaped"]_vars

\* C31 witness: the second worker was reaped before the first, and a fifth
\* was forked into the slot: children is << 1, 3, 4, 5 >>.
C31_Witness ==
  /\ Reaped = 1
  /\ Len(children) = max_concurrent
  /\ children[1] = 1
  /\ children[2] = 3
  /\ last_pid = max_concurrent + 1

\* C32: the accounting of the scheduler loop.  failed_count is never
\* negative; failed_count plus the number of live workers never exceeds
\* pkg_idx, which never exceeds the list size N, so failed_count never
\* exceeds N; the requests consumed so far are the failures recorded, the
\* live workers and the workers reaped without a failure being recorded;
\* and failed_count never decreases (it grows by at most one per step).
C32_AccountingInvariant ==
  /\ [](/\ 0 <= failed_count
        /\ failed_count + Len(children) <= pkg_idx
        /\ pkg_idx <= N
        /\ failed_count <= N
        /\ pkg_idx = failed_count + Len(children)
                       + tally.Success + tally.Killed)
  /\ [][/\ failed_count' >= failed_count
        /\ failed_count' <= failed_count + 1
        /\ pkg_idx' >= pkg_idx]_vars

\* C32 witness: the list is consumed, a rejected name or failed fork and a
\* worker that exited nonzero have been counted, a worker is still live,
\* and nothing else was consumed: the bound on pkg_idx is met exactly.
C32_Witness ==
  /\ pkg_idx = N
  /\ tally.Failure >= 1
  /\ failed_count >= 2
  /\ Len(children) >= 1
  /\ failed_count + Len(children) = pkg_idx

\* C33: install_packages_parallel terminates even when wait() fails.  When
\* the parent is in wait() with a non-empty children and no child left to
\* wait for (wait() returns -1), it still returns in the end.
C33_ReturnsAfterWaitFailure ==
  (pc = "wait" /\ Len(children) > 0 /\ Existing = {}) ~> (pc = "done")

\* The scheduler's own state: what dispatch, reap and the summary change.
Scheduling ==
  << pc, children, pkg_idx, failed_count, exit_code, last_pid, forks,
     outcome, tally >>

\* C34: a worker runs one job and then exits with that job's result.  From
\* its first step to its end a worker runs the job of the request it was
\* forked for, on the pipeline of the batch; it stops being a running
\* process only by exit (result), reached from the end of its job and
\* giving the status word of that result, or by a signal; after that it
\* takes no step and begins no second job.  No step of a worker forks,
\* reaps, or touches the scheduler's state or another worker; dispatch,
\* reap and the summary are steps of the parent alone, which change no
\* worker's job.
C34_WorkerRunsOneJobThenExits ==
  /\ [](\A p \in Pids :
          /\ (p \in Started /\ proc[p].st # "free") =>
               /\ job[p].pkg = packages[proc[p].idx]
               /\ job[p].pipeline = PipelineFor(use_aur)
          /\ job[p].step = "exited" =>
               /\ proc[p].st # "running"
               /\ job[p].result \in JobReturns(use_aur)
               /\ WIFEXITED(job[p].status)
               /\ WEXITSTATUS(job[p].status) = job[p].result
          /\ job[p].step = "killed" =>
               (proc[p].st # "running" /\ ~WIFEXITED(job[p].status))
          /\ job[p].step # "none" => p <= last_pid)
  /\ [][/\ \A p \in Pids :
             /\ job'[p] # job[p] =>
                  /\ proc[p].st = "running"
                  /\ UNCHANGED Scheduling
                  /\ \A q \in Pids \ {p} :
                       job'[q] = job[q] /\ proc'[q] = proc[q]
             /\ (job'[p].step = "exited" /\ job[p].step # "exited") =>
                  /\ job[p].step = "exit"
                  /\ job'[p].result = job[p].result
                  /\ job'[p].status = ExitStatus(job[p].result)
             /\ job'[p].step = "none" => job[p].step = "none"
             /\ (proc[p].st = "running" /\ proc'[p].st # "running") =>
                  (job[p].step # job'[p].step
                     /\ job'[p].step \in {"exited", "killed"})
        /\ Scheduling' # Scheduling => job' = job]_vars

\* C34 witness: a worker of the Mirror pipeline whose build failed has left
\* through exit (4) and was reaped and counted, while a second worker is
\* in the middle of its own job.
C34_Witness ==
  \E p, q \in Pids :
    /\ job[p].step = "exited"
    /\ job[p].result = 4
    /\ proc[p].st = "free"
    /\ tally.Failure = 1
    /\ failed_count = 1
    /\ proc[q].st = "running"
    /\ job[q].step = "build"

====
